---------------------------- MODULE Spec2Model ----------------------------
(***************************************************************************)
(* The to-do store (services/todos.ts), the MCP tool handlers              *)
(* (create-server.ts) and the REST routes (index.ts) that share it.        *)
(*                                                                         *)
(* JavaScript values are tagged records, so that a title can be a string,  *)
(* undefined or a number and a completed flag can be a boolean or          *)
(* undefined, as the untyped REST bodies allow at run time.                *)
(***************************************************************************)
EXTENDS Integers, Sequences, FiniteSets, TLC

(* ------------------------------ bounds -------------------------------- *)

\* Number of mutating requests one behaviour processes.
MaxOps == 2

\* Number of distinct wall-clock readings (milliseconds) after ClockBase.
MaxClock == 1

\* The callTool invocations that may be in flight at once.
MaxCalls == 2

\* First wall-clock reading of the model.  Date.now() is about 1.7e12 when
\* the program runs, so a reading never renders as a sample id "1".."3".
ClockBase == 10

\* Longest title the add_todo schema accepts.
MaxTitleLen == 200

Clock == ClockBase .. (ClockBase + MaxClock)

(* --------------------------- JavaScript values ------------------------ *)

Undefined == [type |-> "undefined", str |-> "", bool |-> FALSE, num |-> 0]

Str(s) == [type |-> "string", str |-> s, bool |-> FALSE, num |-> 0]

Bool(b) == [type |-> "boolean", str |-> "", bool |-> b, num |-> 0]

Num(n) == [type |-> "number", str |-> "", bool |-> FALSE, num |-> n]

\* null
JsNull == [type |-> "null", str |-> "", bool |-> FALSE, num |-> 0]

\* An object, told from other objects by its name.
Obj(name) == [type |-> "object", str |-> name, bool |-> FALSE, num |-> 0]

\* typeof v
TypeOf(v) == v.type

\* ToBoolean(v): undefined, null, "", 0 and false are falsy.
Truthy(v) ==
  CASE v.type = "undefined" -> FALSE
    [] v.type = "null" -> FALSE
    [] v.type = "object" -> TRUE
    [] v.type = "string" -> v.str # ""
    [] v.type = "boolean" -> v.bool
    [] v.type = "number" -> v.num # 0

\* !v
Not(v) == Bool(~Truthy(v))

\* A value of an optional result: <<>> is null / undefined, <<x>> is x.
Null == <<>>

Some(x) == <<x>>

RECURSIVE Repeat(_, _)
Repeat(s, n) == IF n = 0 THEN "" ELSE s \o Repeat(s, n - 1)

(* ------------------------------- the Map ------------------------------ *)
\* A Map<string, Todo> is the sequence of its entries in insertion order.

Keys(m) == {m[i].key : i \in 1..Len(m)}

MapHas(m, k) == k \in Keys(m)

IndexOf(m, k) == CHOOSE i \in 1..Len(m) : m[i].key = k

\* Map.prototype.get: the value under k, or undefined.
MapGet(m, k) == IF MapHas(m, k) THEN Some(m[IndexOf(m, k)].val) ELSE Null

\* Map.prototype.set: an existing key keeps its position, a new key is
\* appended.
MapSet(m, k, v) ==
  IF MapHas(m, k)
    THEN [m EXCEPT ![IndexOf(m, k)] = [key |-> k, val |-> v]]
    ELSE Append(m, [key |-> k, val |-> v])

\* Map.prototype.delete: the map without k.
MapDelete(m, k) == SelectSeq(m, LAMBDA e : e.key # k)

\* Array.from(map.values())
Values(m) == [i \in 1..Len(m) |-> m[i].val]

(* ------------------------------ the store ----------------------------- *)

VARIABLES
  todos,   \* the module-level Map of services/todos.ts
  now,     \* the wall clock Date.now() reads
  held,    \* the reference a caller of the store kept from a return value
  last,    \* the last request and its response
  nops,    \* mutating requests processed so far
  host,    \* window.openai, the globals the host injects into the widget
  widget,  \* the React state of the widget's hooks
  calls,   \* the callTool invocations the host has not settled yet
  wlast,   \* the last invocation of a widget helper and its outcome
  script   \* the ids a scripted caller of the store was returned

\* The widget's side of the system, which no server request touches.
clientVars == <<host, widget, calls, wlast, script>>

vars == <<todos, now, held, last, nops, host, widget, calls, wlast, script>>

Todo(id, title, completed, createdAt) ==
  [id |-> id, title |-> title, completed |-> completed, createdAt |-> createdAt]

sampleTodos(c1, c2, c3) ==
  << Todo("1", Str("Learn about MCP"), Bool(FALSE), c1),
     Todo("2", Str("Build a ChatGPT app"), Bool(FALSE), c2),
     Todo("3", Str("Deploy to Vercel"), Bool(FALSE), c3) >>

SampleIds == {"1", "2", "3"}

RECURSIVE SetAll(_, _)
\* sampleTodos.forEach(todo => todos.set(todo.id, todo))
SetAll(m, list) ==
  IF list = <<>> THEN m
  ELSE SetAll(MapSet(m, Head(list).id, Head(list)), Tail(list))

initializeSampleTodos(c1, c2, c3) == SetAll(<<>>, sampleTodos(c1, c2, c3))

RECURSIVE Insert(_, _)
\* x placed after every element whose createdAt is not greater (stable).
Insert(sorted, x) ==
  IF sorted = <<>> THEN <<x>>
  ELSE IF Head(sorted).createdAt - x.createdAt > 0
         THEN <<x>> \o sorted
         ELSE <<Head(sorted)>> \o Insert(Tail(sorted), x)

RECURSIVE SortByCreatedAt(_)
\* Array.prototype.sort((a, b) => a.createdAt - b.createdAt), a stable sort.
SortByCreatedAt(list) ==
  IF list = <<>> THEN <<>>
  ELSE Insert(SortByCreatedAt(SubSeq(list, 1, Len(list) - 1)), list[Len(list)])

\* getAllTodos without its sort: the todos in the map's insertion order.
getAllTodosUnsorted(m) == Values(m)

getAllTodos(m) == SortByCreatedAt(Values(m))

getTodoById(m, id) == MapGet(m, id)

\* createTodo(title), with t1 and t2 the two readings of Date.now().
\* The result names the map after the call, the value returned and the keys
\* whose entry now holds another object than before.
createTodo(m, title, t1, t2) ==
  LET id == ToString(t1)
      todo == Todo(id, title, Bool(FALSE), t2)
  IN [todos |-> MapSet(m, id, todo), ret |-> Some(todo), rebound |-> {id} \cap Keys(m)]

\* The spread with createdAt stamped anew, as an update that refreshed the
\* timestamp would do.
SpreadRestamped(todo, updates) ==
  LET pick(f) == IF f \in DOMAIN updates THEN updates[f] ELSE todo[f]
  IN [id |-> pick("id"), title |-> pick("title"),
      completed |-> pick("completed"), createdAt |-> now]

\* { ...todo, ...updates }: every own key of updates overrides, also when
\* its value is undefined.
Spread(todo, updates) ==
  LET pick(f) == IF f \in DOMAIN updates THEN updates[f] ELSE todo[f]
  IN [id |-> pick("id"), title |-> pick("title"),
      completed |-> pick("completed"), createdAt |-> pick("createdAt")]

\* updateTodo without its not-found return: an absent id gets a record.
updateTodoUpsert(m, id, updates) ==
  LET todo == MapGet(m, id)
      base == IF todo = Null THEN Todo(id, Undefined, Undefined, now) ELSE todo[1]
      updated == Spread(base, updates)
  IN [todos |-> MapSet(m, id, updated), ret |-> Some(updated), rebound |-> {id} \cap Keys(m)]

updateTodo(m, id, updates) ==
  LET todo == MapGet(m, id)
  IN IF todo = Null
       THEN [todos |-> m, ret |-> Null, rebound |-> {}]
       ELSE LET updated == Spread(todo[1], updates)
            IN [todos |-> MapSet(m, id, updated), ret |-> Some(updated), rebound |-> {id}]

\* deleteTodo reporting a removal whether or not the id was present.
deleteTodoAlwaysTrue(m, id) ==
  [todos |-> MapDelete(m, id), ret |-> TRUE, rebound |-> {id} \cap Keys(m)]

deleteTodo(m, id) ==
  [todos |-> MapDelete(m, id), ret |-> MapHas(m, id), rebound |-> {id} \cap Keys(m)]

\* toggleTodo that writes a record for an id the map lacks.
toggleTodoReinserting(m, id) ==
  LET todo == MapGet(m, id)
  IN IF todo = Null
       THEN LET fresh == Todo(id, Undefined, Bool(TRUE), now)
            IN [todos |-> MapSet(m, id, fresh), ret |-> Some(fresh), rebound |-> {}]
       ELSE updateTodo(m, id, [completed |-> Not(todo[1].completed)])

toggleTodo(m, id) ==
  LET todo == MapGet(m, id)
  IN IF todo = Null
       THEN [todos |-> m, ret |-> Null, rebound |-> {}]
       ELSE updateTodo(m, id, [completed |-> Not(todo[1].completed)])

(* ------------------------- references to todos ------------------------ *)
\* The store hands out the objects it keeps, so a caller's reference is
\* either to the object the map holds under a key ("stored") or to an
\* object the map no longer holds ("detached", with its own contents).

NoRef == [kind |-> "none", key |-> "", obj |-> Null]

StoredRef(k) == [kind |-> "stored", key |-> k, obj |-> Null]

DetachedRef(k, o) == [kind |-> "detached", key |-> k, obj |-> Some(o)]

\* The reference h after the map m has put another object (or none) under
\* the keys of rebound.
Detach(h, m, rebound) ==
  IF h.kind = "stored" /\ h.key \in rebound
    THEN DetachedRef(h.key, MapGet(m, h.key)[1])
    ELSE h

(* ------------------------------- inputs ------------------------------- *)

TooLongTitle == Repeat("x", MaxTitleLen + 1)

\* Values a request may carry as its title.
TitleInputs == {Undefined, Num(7), Str(""), Str("A"), Str(TooLongTitle)}

\* Values a PUT body may carry as its title and as its completed flag;
\* Undefined is a body that omits the field.
PutTitleInputs == {Undefined, Str("B")}

PutCompletedInputs == {Undefined, Bool(TRUE)}

UnknownId == "nope"

\* Ids a request may name: two of the samples, every id create can assign
\* and one id no todo ever has.
IdInputs == {"1", "2"} \cup {ToString(t) : t \in Clock} \cup {UnknownId}

\* Snapshots a save_todo_state call may carry: none, one that differs from
\* the store and one whose todo is malformed.
SnapshotInputs ==
  { Null,
    Some(<<Todo("1", Str("Edited in widget"), Bool(TRUE), ClockBase)>>),
    Some(<<Todo("1", Undefined, Bool(TRUE), ClockBase)>>) }

(* ------------------------------ responses ----------------------------- *)

\* `${v}`
Template(v) ==
  CASE v.type = "undefined" -> "undefined"
    [] v.type = "string" -> v.str
    [] v.type = "boolean" -> (IF v.bool THEN "true" ELSE "false")
    [] v.type = "number" -> ToString(v.num)

\* `${n !== 1 ? "s" : ""}`
Plural(n) == IF n # 1 THEN "s" ELSE ""

\* The title and completed fields a request carries, Undefined when it
\* carries none.
Args(title, completed) == [title |-> title, completed |-> completed]

NoArgs == Args(Undefined, Undefined)

\* A request and its response.  id and args are what the request names;
\* status is the HTTP status of a REST route and "result", "isError" or
\* "thrown" (schema rejection) for a tool; structured tells whether the
\* response carries a payload (a REST body other than an error, a tool's
\* structuredContent); ret is the todo and list the todo list of that
\* payload.
Response(op, id, args, status, text, structured, ret, list) ==
  [op |-> op, id |-> id, args |-> args, status |-> status, text |-> text,
   structured |-> structured, ret |-> ret, list |-> list]

Thrown(op, args) == Response(op, "", args, "thrown", "", FALSE, Null, <<>>)

\* z.string().min(1).max(200)
titleSchema(v) ==
  /\ TypeOf(v) = "string"
  /\ Len(v.str) >= 1
  /\ Len(v.str) <= MaxTitleLen

\* z.string()
idSchema(v) == TypeOf(v) = "string"

\* z.array(z.object({ id: z.string(), title: z.string(),
\*                    completed: z.boolean(), createdAt: z.number() }))
todosSchema(raw) ==
  /\ raw # Null
  /\ \A i \in 1..Len(raw[1]) :
       /\ TypeOf(raw[1][i].title) = "string"
       /\ TypeOf(raw[1][i].completed) = "boolean"

(* ------------------------- the widget's hooks ------------------------- *)

HostFunctions == {"callTool", "sendFollowUpMessage", "requestDisplayMode", "openExternal"}

\* window.openai: whether the host injected it, the two globals the hooks
\* mirror and the integration functions it carries.
Host(present, toolOutput, widgetState, provides) ==
  [present |-> present, toolOutput |-> toolOutput, widgetState |-> widgetState,
   provides |-> provides]

\* A page the host injected nothing into.
NoHost == Host(FALSE, Undefined, Undefined, {})

\* window.openai?.toolOutput
HostToolOutput(h) == IF h.present THEN h.toolOutput ELSE Undefined

\* window.openai?.widgetState
HostWidgetState(h) == IF h.present THEN h.widgetState ELSE Undefined

\* window.openai?.[fn] is a function
Provides(h, fn) == h.present /\ fn \in h.provides

\* a || b
Or(a, b) == IF Truthy(a) THEN a ELSE b

\* The initialState the component passes to useWidgetState.
InitialState == Obj("initialState")

\* The hooks' state after the first render under the host h.
Mounted(h) ==
  [toolOutput |-> Or(HostToolOutput(h), JsNull),
   widgetState |-> Or(HostWidgetState(h), InitialState),
   isLoading |-> FALSE]

\* An invocation of a widget helper: its outcome and whether it called
\* the host's function.
Invocation(helper, outcome, hostCalled) ==
  [helper |-> helper, outcome |-> outcome, hostCalled |-> hostCalled]

InitClient(h) ==
  /\ host = h
  /\ widget = Mounted(h)
  /\ calls = 0
  /\ wlast = Invocation("", "", FALSE)
  /\ script = <<>>

(* -------------------------------- Init -------------------------------- *)

\* The module is imported once: the three samples are stamped by three
\* successive readings of the clock (the millisecond may turn before the
\* last one), and nothing has been requested yet.
InitStore ==
  \E c1, c2, c3 \in Clock :
    /\ c1 = ClockBase
    /\ c2 = c1
    /\ c3 \in {c2, c2 + 1}
    /\ todos = initializeSampleTodos(c1, c2, c3)
    /\ now = c3
    /\ held = NoRef
    /\ last = Response("import", "", NoArgs, "", "", FALSE, Null, <<>>)
    /\ nops = 0

\* The server alone: no widget is open.
Init == InitStore /\ InitClient(NoHost)

\* The effect of a store call r on the state, answered by resp.
Commit(r, resp) ==
  /\ todos' = r.todos
  /\ held' = Detach(held, todos, r.rebound)
  /\ last' = resp
  /\ nops' = nops + 1

\* A request that leaves the store alone, answered by resp.
Answer(resp) ==
  /\ last' = resp
  /\ UNCHANGED <<todos, now, held, nops, clientVars>>

(* ------------------------------ the clock ----------------------------- *)

\* Time passes between requests; the wall clock may also be set back.
Tick ==
  /\ \E t \in Clock \ {now} : now' = t
  /\ UNCHANGED <<todos, held, last, nops, clientVars>>

(* --------------------------- MCP tool handlers ------------------------ *)

McpShowTodoList ==
  LET list == getAllTodos(todos)
  IN Answer(Response("todos.show_todo_list", "", NoArgs, "result",
       "To-do list is ready! You have " \o ToString(Len(list)) \o " task"
         \o Plural(Len(list)) \o ".",
       TRUE, Null, list))

McpRefreshTodos ==
  LET list == getAllTodos(todos)
  IN Answer(Response("todos.refresh_todos", "", NoArgs, "result",
       "Refreshed " \o ToString(Len(list)) \o " todo" \o Plural(Len(list)) \o ".",
       TRUE, Null, list))

\* title is the raw parameter; t2 is the second reading of the clock.
McpAddTodo(title, t2) ==
  /\ nops < MaxOps
  /\ UNCHANGED clientVars
  /\ IF ~titleSchema(title)
       THEN /\ last' = Thrown("todos.add_todo", Args(title, Undefined))
            /\ nops' = nops + 1
            /\ UNCHANGED <<todos, now, held>>
       ELSE LET r == createTodo(todos, title, now, t2)
            IN /\ Commit(r, Response("todos.add_todo", r.ret[1].id,
                    Args(title, Undefined), "result",
                    "Added to-do: \"" \o Template(title) \o "\"",
                    TRUE, r.ret, getAllTodos(r.todos)))
               /\ now' = t2

\* A toggle handler that lets "not found" escape as an exception.
McpToggleTodoThrows(id) ==
  /\ nops < MaxOps
  /\ UNCHANGED clientVars
  /\ UNCHANGED now
  /\ IF ~idSchema(id)
       THEN /\ last' = Thrown("todos.toggle_todo", NoArgs)
            /\ nops' = nops + 1
            /\ UNCHANGED <<todos, held>>
       ELSE LET r == toggleTodo(todos, id.str)
            IN IF r.ret = Null
                 THEN Commit(r, Response("todos.toggle_todo", id.str, NoArgs, "thrown",
                        "", FALSE, Null, <<>>))
                 ELSE Commit(r, Response("todos.toggle_todo", id.str, NoArgs, "result",
                        "To-do \"" \o Template(r.ret[1].title) \o "\" marked as "
                          \o (IF Truthy(r.ret[1].completed)
                                THEN "completed" ELSE "incomplete") \o ".",
                        TRUE, r.ret, getAllTodos(r.todos)))

McpToggleTodo(id) ==
  /\ nops < MaxOps
  /\ UNCHANGED clientVars
  /\ UNCHANGED now
  /\ IF ~idSchema(id)
       THEN /\ last' = Thrown("todos.toggle_todo", NoArgs)
            /\ nops' = nops + 1
            /\ UNCHANGED <<todos, held>>
       ELSE LET r == toggleTodo(todos, id.str)
            IN IF r.ret = Null
                 THEN Commit(r, Response("todos.toggle_todo", id.str, NoArgs, "isError",
                        "To-do item with ID \"" \o id.str \o "\" not found.",
                        FALSE, Null, <<>>))
                 ELSE Commit(r, Response("todos.toggle_todo", id.str, NoArgs, "result",
                        "To-do \"" \o Template(r.ret[1].title) \o "\" marked as "
                          \o (IF Truthy(r.ret[1].completed)
                                THEN "completed" ELSE "incomplete") \o ".",
                        TRUE, r.ret, getAllTodos(r.todos)))

McpDeleteTodo(id) ==
  /\ nops < MaxOps
  /\ UNCHANGED clientVars
  /\ UNCHANGED now
  /\ IF ~idSchema(id)
       THEN /\ last' = Thrown("todos.delete_todo", NoArgs)
            /\ nops' = nops + 1
            /\ UNCHANGED <<todos, held>>
       ELSE LET todo == getTodoById(todos, id.str)
                r == deleteTodo(todos, id.str)
            IN IF ~r.ret
                 THEN Commit(r, Response("todos.delete_todo", id.str, NoArgs, "isError",
                        "To-do item with ID \"" \o id.str \o "\" not found.",
                        FALSE, Null, <<>>))
                 ELSE Commit(r, Response("todos.delete_todo", id.str, NoArgs, "result",
                        "Deleted to-do: \""
                          \o (IF todo # Null /\ Truthy(todo[1].title)
                                THEN Template(todo[1].title) ELSE id.str)
                          \o "\"",
                        TRUE, Null, getAllTodos(r.todos)))

\* A save_todo_state handler that replaces the store by the snapshot.
McpSaveTodoStatePersisting(raw) ==
  IF ~todosSchema(raw)
    THEN Answer(Thrown("todos.save_todo_state", NoArgs))
    ELSE /\ todos' = SetAll(<<>>, raw[1])
         /\ last' = Response("todos.save_todo_state", "", NoArgs, "result",
              "Saved " \o ToString(Len(raw[1])) \o " todo" \o Plural(Len(raw[1])) \o ".",
              TRUE, Null, raw[1])
         /\ UNCHANGED <<now, held, nops, clientVars>>

\* raw is the todos parameter: Null when it is missing, else the array.
McpSaveTodoState(raw) ==
  IF ~todosSchema(raw)
    THEN Answer(Thrown("todos.save_todo_state", NoArgs))
    ELSE Answer(Response("todos.save_todo_state", "", NoArgs, "result",
           "Saved " \o ToString(Len(raw[1])) \o " todo" \o Plural(Len(raw[1])) \o ".",
           TRUE, Null, getAllTodos(todos)))

(* ------------------------------ REST routes --------------------------- *)

\* A GET /api/todos route that reads a store of its own, filled on import
\* and written by no handler.
RestGetTodosOwnStore ==
  Answer(Response("GET /api/todos", "", NoArgs, "200", "", TRUE, Null,
                  getAllTodos(initializeSampleTodos(ClockBase, ClockBase, ClockBase))))

RestGetTodos ==
  Answer(Response("GET /api/todos", "", NoArgs, "200", "", TRUE, Null, getAllTodos(todos)))

\* title is the title field of the JSON body.
RestPostTodo(title, t2) ==
  /\ nops < MaxOps
  /\ UNCHANGED clientVars
  /\ IF ~Truthy(title) \/ TypeOf(title) # "string"
       THEN /\ last' = Response("POST /api/todos", "", Args(title, Undefined), "400",
                                "Title is required", FALSE, Null, <<>>)
            /\ nops' = nops + 1
            /\ UNCHANGED <<todos, now, held>>
       ELSE LET r == createTodo(todos, title, now, t2)
            IN /\ Commit(r, Response("POST /api/todos", r.ret[1].id,
                                     Args(title, Undefined), "200", "",
                                     TRUE, r.ret, <<>>))
               /\ now' = t2

\* title and completed are the fields of the JSON body, Undefined when the
\* body omits them.
RestPutTodo(id, title, completed) ==
  /\ nops < MaxOps
  /\ UNCHANGED clientVars
  /\ UNCHANGED now
  /\ LET r == updateTodo(todos, id, [title |-> title, completed |-> completed])
     IN IF r.ret = Null
          THEN Commit(r, Response("PUT /api/todos/:id", id, Args(title, completed),
                                  "404", "Todo not found", FALSE, Null, <<>>))
          ELSE Commit(r, Response("PUT /api/todos/:id", id, Args(title, completed),
                                  "200", "", TRUE, r.ret, <<>>))

RestDeleteTodo(id) ==
  /\ nops < MaxOps
  /\ UNCHANGED clientVars
  /\ UNCHANGED now
  /\ LET r == deleteTodo(todos, id)
     IN IF ~r.ret
          THEN Commit(r, Response("DELETE /api/todos/:id", id, NoArgs, "404",
                                  "Todo not found", FALSE, Null, <<>>))
          ELSE Commit(r, Response("DELETE /api/todos/:id", id, NoArgs, "200", "",
                                  TRUE, Some([success |-> TRUE]), <<>>))

\* A toggle route that answers with whatever toggleTodo returned.
RestToggleTodoUnchecked(id) ==
  /\ nops < MaxOps
  /\ UNCHANGED clientVars
  /\ UNCHANGED now
  /\ LET r == toggleTodo(todos, id)
     IN Commit(r, Response("POST /api/todos/:id/toggle", id, NoArgs, "200", "",
                           TRUE, r.ret, <<>>))

RestToggleTodo(id) ==
  /\ nops < MaxOps
  /\ UNCHANGED clientVars
  /\ UNCHANGED now
  /\ LET r == toggleTodo(todos, id)
     IN IF r.ret = Null
          THEN Commit(r, Response("POST /api/todos/:id/toggle", id, NoArgs, "404",
                                  "Todo not found", FALSE, Null, <<>>))
          ELSE Commit(r, Response("POST /api/todos/:id/toggle", id, NoArgs, "200", "",
                                  TRUE, r.ret, <<>>))

(* --------------------- other methods on /mcp -------------------------- *)

\* The methods of requests to /mcp other than POST.
McpMethods == {"GET", "DELETE", "PUT", "PATCH"}

\* The methods a route handler of /mcp is registered for, POST aside.
McpRouted == {"GET", "DELETE"}

\* A handler that answers with the envelope of an internal error.
methodNotAllowedInternal(method) ==
  Response(method \o " /mcp", "", NoArgs, "500", "Internal server error", FALSE,
           Some([jsonrpc |-> "2.0",
                 error |-> [code |-> -32603, message |-> "Internal server error"],
                 id |-> JsNull]), <<>>)

\* res.status(405).json({ jsonrpc, error: { code, message }, id: null })
methodNotAllowed(method) ==
  Response(method \o " /mcp", "", NoArgs, "405", "Method not allowed.", FALSE,
           Some([jsonrpc |-> "2.0",
                 error |-> [code |-> -32000, message |-> "Method not allowed."],
                 id |-> JsNull]), <<>>)

\* Express finds no route for the request and answers 404 itself.
NoRoute(method) ==
  Response(method \o " /mcp", "", NoArgs, "404", "Cannot " \o method \o " /mcp",
           FALSE, Null, <<>>)

\* A request to /mcp whose method is not POST.
McpOther(method) ==
  IF method \in McpRouted
    THEN Answer(methodNotAllowed(method))
    ELSE Answer(NoRoute(method))

(* ---------------------------- specification --------------------------- *)

\* The readings of the clock a call that starts at now can make next.
NextReadings == {now, now + 1} \cap Clock

Next ==
  \/ Tick
  \/ McpShowTodoList
  \/ McpRefreshTodos
  \/ \E title \in TitleInputs, t2 \in NextReadings : McpAddTodo(title, t2)
  \/ \E id \in IdInputs : McpToggleTodo(Str(id))
  \/ McpToggleTodo(Undefined)
  \/ \E id \in IdInputs : McpDeleteTodo(Str(id))
  \/ McpDeleteTodo(Undefined)
  \/ \E raw \in SnapshotInputs : McpSaveTodoState(raw)
  \/ RestGetTodos
  \/ \E title \in TitleInputs, t2 \in NextReadings : RestPostTodo(title, t2)
  \/ \E id \in IdInputs, title \in PutTitleInputs, completed \in PutCompletedInputs :
       RestPutTodo(id, title, completed)
  \/ \E id \in IdInputs : RestDeleteTodo(id)
  \/ \E id \in IdInputs : RestToggleTodo(id)
  \/ \E method \in McpMethods : McpOther(method)

Spec == Init /\ [][Next]_vars

(* ----------------------- a caller of the store ------------------------- *)
\* Code that imports services/todos.ts calls its functions directly, keeps
\* the value a call returned and may write to it.

\* Titles a typed caller passes to createTodo(title: string).
CallerTitleInputs == {Str(""), Str("A"), Str(TooLongTitle)}

\* The updates a typed caller passes to updateTodo: a Partial that names
\* the title alone or the completed flag alone.
CallerUpdateInputs == {[title |-> Str("B")], [completed |-> Bool(TRUE)]}

\* The title and completed fields of an updates object.
ArgsOf(updates) ==
  Args(IF "title" \in DOMAIN updates THEN updates.title ELSE Undefined,
       IF "completed" \in DOMAIN updates THEN updates.completed ELSE Undefined)

\* What a caller writes to the object it holds.
CallerWrites == {[title |-> Str("changed by caller")], [completed |-> Bool(TRUE)]}

\* The caller keeps the i-th todo of getAllTodos().
StoreGetAllTodos(i) ==
  LET list == getAllTodos(todos)
  IN /\ i \in 1..Len(list)
     /\ held' = StoredRef(list[i].id)
     /\ last' = Response("getAllTodos", "", NoArgs, "returned", "", TRUE, Null, list)
     /\ UNCHANGED <<todos, now, nops, clientVars>>

\* The caller keeps what getTodoById(id) returned.
StoreGetTodoById(id) ==
  LET todo == getTodoById(todos, id)
  IN /\ held' = IF todo = Null THEN NoRef ELSE StoredRef(id)
     /\ last' = Response("getTodoById", id, NoArgs, "returned", "", todo # Null, todo, <<>>)
     /\ UNCHANGED <<todos, now, nops, clientVars>>

\* The caller keeps what createTodo(title) returned.
StoreCreateTodo(title, t2) ==
  /\ nops < MaxOps
  /\ UNCHANGED clientVars
  /\ LET r == createTodo(todos, title, now, t2)
     IN /\ todos' = r.todos
        /\ held' = StoredRef(r.ret[1].id)
        /\ last' = Response("createTodo", r.ret[1].id, Args(title, Undefined),
                            "returned", "", TRUE, r.ret, <<>>)
        /\ now' = t2
        /\ nops' = nops + 1

\* The caller keeps what updateTodo(id, updates) returned.
StoreUpdateTodo(id, updates) ==
  /\ nops < MaxOps
  /\ UNCHANGED clientVars
  /\ LET r == updateTodo(todos, id, updates)
     IN /\ todos' = r.todos
        /\ held' = IF r.ret = Null THEN held ELSE StoredRef(id)
        /\ last' = Response("updateTodo", id, ArgsOf(updates), "returned", "",
                            r.ret # Null, r.ret, <<>>)
        /\ nops' = nops + 1
        /\ UNCHANGED now

\* The caller keeps what toggleTodo(id) returned.
StoreToggleTodo(id) ==
  /\ nops < MaxOps
  /\ UNCHANGED clientVars
  /\ LET r == toggleTodo(todos, id)
     IN /\ todos' = r.todos
        /\ held' = IF r.ret = Null THEN held ELSE StoredRef(id)
        /\ last' = Response("toggleTodo", id, NoArgs, "returned", "",
                            r.ret # Null, r.ret, <<>>)
        /\ nops' = nops + 1
        /\ UNCHANGED now

\* The object o with the fields of w written to it.
Written(o, w) ==
  [o EXCEPT !.title = IF "title" \in DOMAIN w THEN w.title ELSE @,
            !.completed = IF "completed" \in DOMAIN w THEN w.completed ELSE @]

\* The caller assigns to a field of the object it holds.  A stored object
\* is the one the map holds, so the map's entry shows the write.
CallerMutate(w) ==
  /\ nops < MaxOps
  /\ UNCHANGED clientVars
  /\ held.kind # "none"
  /\ IF held.kind = "stored"
       THEN /\ todos' = [todos EXCEPT ![IndexOf(todos, held.key)].val = Written(@, w)]
            /\ UNCHANGED held
       ELSE /\ held' = DetachedRef(held.key, Written(held.obj[1], w))
            /\ UNCHANGED todos
  /\ last' = Response("caller writes", held.key, ArgsOf(w), "", "", FALSE, Null, <<>>)
  /\ nops' = nops + 1
  /\ UNCHANGED now

NextCaller ==
  \/ Next
  \/ \E i \in 1..Len(todos) : StoreGetAllTodos(i)
  \/ \E id \in IdInputs : StoreGetTodoById(id)
  \/ \E title \in CallerTitleInputs, t2 \in NextReadings : StoreCreateTodo(title, t2)
  \/ \E id \in IdInputs, updates \in CallerUpdateInputs : StoreUpdateTodo(id, updates)
  \/ \E id \in IdInputs : StoreToggleTodo(id)
  \/ \E w \in CallerWrites : CallerMutate(w)

SpecCaller == Init /\ [][NextCaller]_vars

(* ------------------------ the widget in its host ---------------------- *)

serverVars == <<todos, now, held, last, nops>>

\* Values the host may give toolOutput and widgetState.
ToolOutputInputs == {Undefined, JsNull, Obj("toolOutput")}

WidgetStateInputs == {Undefined, JsNull, Obj("widgetState")}

\* Sets of integration functions a host may provide: all, or all but one.
ProvidesInputs == {HostFunctions} \cup {HostFunctions \ {fn} : fn \in HostFunctions}

HostInputs ==
  {NoHost} \cup {Host(TRUE, out, st, p) : out \in ToolOutputInputs,
                                         st \in WidgetStateInputs, p \in ProvidesInputs}

\* States a component passes to setPersistedState.
PersistInputs == {Obj("edited")}

\* The host changes the globals it injects.
HostSetGlobals(out, st) ==
  /\ host.present
  /\ host' = [host EXCEPT !.toolOutput = out, !.widgetState = st]
  /\ host' # host
  /\ UNCHANGED <<serverVars, widget, calls, wlast, script>>

\* openai:set_globals is dispatched: the listeners of useToolOutput and of
\* useWidgetState run.
SetGlobalsEvent ==
  /\ widget' = [widget EXCEPT
                  !.toolOutput = Or(HostToolOutput(host), JsNull),
                  !.widgetState = IF HostWidgetState(host) # Undefined
                                    THEN HostWidgetState(host) ELSE @]
  /\ UNCHANGED <<serverVars, host, calls, wlast, script>>

\* setPersistedState(newState): the hook's state is set and the host, when
\* there is one, is handed the state to keep.
SetPersistedState(newState) ==
  /\ widget' = [widget EXCEPT !.widgetState = newState]
  /\ host' = IF host.present THEN [host EXCEPT !.widgetState = newState] ELSE host
  /\ wlast' = Invocation("setWidgetState", "returned", host.present)
  /\ UNCHANGED <<serverVars, calls, script>>

\* callTool that engages the loading indicator before it looks for the
\* host's function.
CallToolEager ==
  /\ calls < MaxCalls
  /\ IF ~Provides(host, "callTool")
       THEN /\ widget' = [widget EXCEPT !.isLoading = TRUE]
            /\ wlast' = Invocation("callTool", "rejected", FALSE)
            /\ UNCHANGED calls
       ELSE /\ widget' = [widget EXCEPT !.isLoading = TRUE]
            /\ calls' = calls + 1
            /\ wlast' = Invocation("callTool", "pending", TRUE)
  /\ UNCHANGED <<serverVars, host, script>>

\* callTool(name, args) up to its await.
CallTool ==
  /\ calls < MaxCalls
  /\ IF ~Provides(host, "callTool")
       THEN /\ wlast' = Invocation("callTool", "rejected", FALSE)
            /\ UNCHANGED <<widget, calls>>
       ELSE /\ widget' = [widget EXCEPT !.isLoading = TRUE]
            /\ calls' = calls + 1
            /\ wlast' = Invocation("callTool", "pending", TRUE)
  /\ UNCHANGED <<serverVars, host, script>>

\* The host settles one of the calls in flight: the finally block runs.
CallToolSettles(outcome) ==
  /\ calls > 0
  /\ calls' = calls - 1
  /\ widget' = [widget EXCEPT !.isLoading = FALSE]
  /\ wlast' = Invocation("callTool", outcome, TRUE)
  /\ UNCHANGED <<serverVars, host, script>>

\* sendFollowUpMessage(prompt) and requestDisplayMode(mode): async helpers.
AsyncHelper(fn) ==
  /\ wlast' = IF ~Provides(host, fn)
                THEN Invocation(fn, "rejected", FALSE)
                ELSE Invocation(fn, "resolved", TRUE)
  /\ UNCHANGED <<serverVars, host, widget, calls, script>>

\* openExternal(href): not async, so the error is thrown to the caller.
OpenExternal ==
  /\ wlast' = IF ~Provides(host, "openExternal")
                THEN Invocation("openExternal", "thrown", FALSE)
                ELSE Invocation("openExternal", "returned", TRUE)
  /\ UNCHANGED <<serverVars, host, widget, calls, script>>

InitWidget == InitStore /\ \E h \in HostInputs : InitClient(h)

NextWidget ==
  \/ \E out \in ToolOutputInputs, st \in WidgetStateInputs : HostSetGlobals(out, st)
  \/ SetGlobalsEvent
  \/ \E newState \in PersistInputs : SetPersistedState(newState)
  \/ CallTool
  \/ \E outcome \in {"resolved", "rejected"} : CallToolSettles(outcome)
  \/ \E fn \in {"sendFollowUpMessage", "requestDisplayMode"} : AsyncHelper(fn)
  \/ OpenExternal

SpecWidget == InitWidget /\ [][NextWidget]_vars

(* ------------------------- a scripted scenario ------------------------- *)
\* A caller of the store creates three todos, toggles the second and
\* deletes the first, reading the list when it likes.  script holds the
\* ids createTodo returned, then a mark for each later step.

ScenarioTitles == <<"A", "B", "C">>

\* Readings enough for every create to find a millisecond of its own; in
\* the scenario the clock only runs forward.
ScenarioClock == ClockBase .. (ClockBase + MaxClock + Len(ScenarioTitles) - 1)

ScriptTick ==
  /\ now + 1 \in ScenarioClock
  /\ now' = now + 1
  /\ UNCHANGED <<todos, held, last, nops, host, widget, calls, wlast, script>>

\* createTodo(title) for the next title of the scenario.
ScriptCreate(t2) ==
  /\ Len(script) < Len(ScenarioTitles)
  /\ t2 \in {now, now + 1} \cap ScenarioClock
  /\ LET title == Str(ScenarioTitles[Len(script) + 1])
         r == createTodo(todos, title, now, t2)
     IN /\ todos' = r.todos
        /\ last' = Response("createTodo", r.ret[1].id, Args(title, Undefined),
                            "returned", "", TRUE, r.ret, <<>>)
        /\ script' = Append(script, r.ret[1].id)
        /\ now' = t2
  /\ UNCHANGED <<held, nops, host, widget, calls, wlast>>

\* toggleTodo(id) for the id the second create returned.
ScriptToggle ==
  /\ Len(script) = Len(ScenarioTitles)
  /\ LET r == toggleTodo(todos, script[2])
     IN /\ todos' = r.todos
        /\ last' = Response("toggleTodo", script[2], NoArgs, "returned", "",
                            r.ret # Null, r.ret, <<>>)
  /\ script' = Append(script, "toggled")
  /\ UNCHANGED <<now, held, nops, host, widget, calls, wlast>>

\* deleteTodo(id) for the id the first create returned.
ScriptDelete ==
  /\ Len(script) = Len(ScenarioTitles) + 1
  /\ LET r == deleteTodo(todos, script[1])
     IN /\ todos' = r.todos
        /\ last' = Response("deleteTodo", script[1], NoArgs, "returned", "",
                            r.ret, Null, <<>>)
  /\ script' = Append(script, "deleted")
  /\ UNCHANGED <<now, held, nops, host, widget, calls, wlast>>

\* getAllTodos()
ScriptList ==
  /\ last' = Response("getAllTodos", "", NoArgs, "returned", "", TRUE, Null,
                      getAllTodos(todos))
  /\ UNCHANGED <<todos, now, held, nops, host, widget, calls, wlast, script>>

NextScenario ==
  \/ ScriptTick
  \/ \E t2 \in ScenarioClock : ScriptCreate(t2)
  \/ ScriptToggle
  \/ ScriptDelete
  \/ ScriptList

SpecScenario == Init /\ [][NextScenario]_vars

(* ------------------------------- claims ------------------------------- *)

\* The step processes a mutating request whose operation is one of ops.
Handled(ops) == nops' = nops + 1 /\ last'.op \in ops

CreateOps == {"todos.add_todo", "POST /api/todos", "createTodo"}

UpdateOps == {"PUT /api/todos/:id", "updateTodo"}

ToggleOps == {"todos.toggle_todo", "POST /api/todos/:id/toggle", "toggleTodo"}

DeleteOps == {"todos.delete_todo", "DELETE /api/todos/:id"}

ListOps == {"todos.show_todo_list", "todos.refresh_todos", "todos.add_todo",
            "todos.toggle_todo", "todos.delete_todo", "todos.save_todo_state",
            "GET /api/todos", "getAllTodos"}

\* Statuses of a request the handler carried out.
Succeeded == {"result", "200", "returned"}

\* Statuses by which a handler reports an id the store does not hold.
NotFound == {"isError", "404"}

\* Statuses by which a handler rejects its input.
Rejected == {"thrown", "400"}

\* The todo the map m holds under k (k is a key of m).
At(m, k) == MapGet(m, k)[1]

\* C1: a create that succeeds assigns an id no todo of the store has, so
\* it replaces no record and the store grows by exactly one todo.
C1_CreateAssignsFreshId ==
  [][(Handled(CreateOps) /\ last'.status \in Succeeded)
       => /\ last'.id \notin Keys(todos)
          /\ Len(todos') = Len(todos) + 1
          /\ \A k \in Keys(todos) : At(todos', k) = At(todos, k)]_vars

\* C2: in every reachable state every stored todo's title is a string of
\* 1 to 200 characters.
C2_TitleLengthInRange ==
  \A i \in 1..Len(todos) :
    /\ TypeOf(todos[i].val.title) = "string"
    /\ Len(todos[i].val.title.str) >= 1
    /\ Len(todos[i].val.title.str) <= MaxTitleLen

\* C3: a create whose title is empty or has 201 characters is rejected
\* with a validation error and leaves the store as it was.
C3_CreateRejectsBadTitle ==
  [][(Handled(CreateOps) /\ last'.args.title \in {Str(""), Str(TooLongTitle)})
       => /\ last'.status \in Rejected
          /\ todos' = todos]_vars

\* C4: an update of a present id that omits the title keeps the stored
\* title, and one that omits the completed flag keeps the stored flag.
C4_UpdateKeepsOmittedFields ==
  [][(Handled(UpdateOps) /\ last'.status \in Succeeded)
       => /\ last'.args.title = Undefined
               => At(todos', last'.id).title = At(todos, last'.id).title
          /\ last'.args.completed = Undefined
               => At(todos', last'.id).completed = At(todos, last'.id).completed]_vars

\* C5: an update or a toggle keeps every todo of the store under its key,
\* at its place, with the id and the createdAt it had.
C5_UpdateKeepsIdAndCreatedAt ==
  [][Handled(UpdateOps \cup ToggleOps)
       => /\ Len(todos') = Len(todos)
          /\ \A i \in 1..Len(todos) :
               /\ todos'[i].key = todos[i].key
               /\ todos'[i].val.id = todos[i].val.id
               /\ todos'[i].val.id = todos[i].key
               /\ todos'[i].val.createdAt = todos[i].val.createdAt]_vars

\* C5 witness: a PUT has changed the title and the flag of a stored todo.
C5_Witness ==
  /\ last.op = "PUT /api/todos/:id"
  /\ last.status = "200"
  /\ MapHas(todos, last.id)
  /\ At(todos, last.id).title = Str("B")
  /\ At(todos, last.id).completed = Bool(TRUE)

\* C6: a write by a caller to a todo it was returned changes nothing a
\* later getTodoById or getAllTodos returns.
C6_ReturnedTodosAreCopies ==
  [][Handled({"caller writes"})
       => /\ getAllTodos(todos') = getAllTodos(todos)
          /\ \A id \in IdInputs : getTodoById(todos', id) = getTodoById(todos, id)]_vars

\* C7: a returned list holds every todo of the store exactly once, each
\* todo's createdAt at most that of the todo after it; the list of an empty
\* store is empty.
C7_ListSortedAndComplete ==
  /\ getAllTodos(<<>>) = <<>>
  /\ (last.op \in ListOps /\ last.status \in Succeeded)
       => /\ Len(last.list) = Len(todos)
          /\ \A k \in Keys(todos) :
               /\ Cardinality({i \in 1..Len(last.list) : last.list[i].id = k}) = 1
               /\ \E i \in 1..Len(last.list) : last.list[i] = At(todos, k)
          /\ \A i \in 1..(Len(last.list) - 1) :
               last.list[i].createdAt <= last.list[i + 1].createdAt

\* C7 witness: a list was returned whose order is not the order in which
\* the map holds the todos.
C7_Witness ==
  /\ last.op = "GET /api/todos"
  /\ Len(last.list) = 5
  /\ last.list # Values(todos)

\* C8: two toggles of a present id in a row leave its completed flag as it
\* was, and the first returns the todo with the flag inverted.
C8_ToggleTwiceRestores ==
  \A k \in Keys(todos) :
    LET once == toggleTodo(todos, k)
        twice == toggleTodo(once.todos, k)
    IN /\ once.ret # Null
       /\ once.ret[1].completed = Not(At(todos, k).completed)
       /\ At(twice.todos, k).completed = At(todos, k).completed

\* C9: deleting a present id is answered as done, removes that todo alone
\* and a later get of the id finds nothing; deleting an absent id is
\* answered as not found and leaves the store as it was.
C9_DeleteRemovesExactlyOne ==
  [][(Handled(DeleteOps) /\ last'.status # "thrown")
       => IF MapHas(todos, last'.id)
            THEN /\ last'.status \in Succeeded
                 /\ Keys(todos') = Keys(todos) \ {last'.id}
                 /\ Len(todos') = Len(todos) - 1
                 /\ \A k \in Keys(todos') : At(todos', k) = At(todos, k)
                 /\ getTodoById(todos', last'.id) = Null
            ELSE /\ last'.status \in NotFound
                 /\ todos' = todos]_vars

\* C9 witness: a present todo has been deleted and another request has
\* then found its id absent.
C9_Witness ==
  /\ last.op = "DELETE /api/todos/:id"
  /\ last.status = "404"
  /\ last.id = "1"
  /\ Len(todos) = 2

\* C10: an update or a toggle of an id the store does not hold is answered
\* as not found, returns no todo and leaves the store as it was.
C10_UnknownIdLeavesStore ==
  [][(Handled(UpdateOps \cup ToggleOps) /\ last'.status # "thrown"
        /\ ~MapHas(todos, last'.id))
       => /\ last'.status \in NotFound
          /\ last'.ret = Null
          /\ todos' = todos]_vars

\* C10 witness: a PUT that carries a title has named an id the store does
\* not hold.
C10_Witness ==
  /\ last.op = "PUT /api/todos/:id"
  /\ last.status = "404"
  /\ last.args.title = Str("B")
  /\ ~MapHas(todos, last.id)

\* C11: the toggle and the delete tool handlers, called with an id the
\* store does not hold, return an error result (isError, a message that
\* names the id, no structured content) rather than throw, and leave the
\* store as it was.
C11_AbsentIdIsErrorResult ==
  [][\A id \in IdInputs :
       (~MapHas(todos, id) /\ (McpToggleTodo(Str(id)) \/ McpDeleteTodo(Str(id))))
         => /\ last'.status = "isError"
            /\ last'.text = "To-do item with ID \"" \o id \o "\" not found."
            /\ ~last'.structured
            /\ last'.ret = Null
            /\ last'.list = <<>>
            /\ todos' = todos]_vars

\* C11 witness: the toggle tool has been called with the id of a todo that
\* was deleted before.
C11_Witness ==
  /\ last.op = "todos.toggle_todo"
  /\ last.status = "isError"
  /\ last.id = "2"
  /\ ~MapHas(todos, "2")

\* The step is a call of one of the three tools that only read.
ReadOnlyTool ==
  \/ McpShowTodoList
  \/ McpRefreshTodos
  \/ \E raw \in SnapshotInputs : McpSaveTodoState(raw)

Created(list) == SelectSeq(list, LAMBDA t : t.id \notin SampleIds)

\* C13: once "A", "B" and "C" are created in that order the list returns
\* them in that order; once the second is toggled the second of the list
\* is completed and the others are as they were; once the first is deleted
\* the list has two todos and starts with "B".  (Read for the todos the
\* scenario created, leaving aside the samples the store starts with.)
C13_Scenario ==
  LET list == Created(getAllTodos(todos))
  IN /\ Len(script) = 3
          => /\ Len(list) = 3
             /\ \A i \in 1..3 : list[i].title = Str(ScenarioTitles[i])
     /\ Len(script) = 4
          => /\ Len(list) = 3
             /\ list[2].completed = Bool(TRUE)
             /\ list[1] = [list[1] EXCEPT !.title = Str("A"), !.completed = Bool(FALSE)]
             /\ list[3] = [list[3] EXCEPT !.title = Str("C"), !.completed = Bool(FALSE)]
     /\ Len(script) = 5
          => /\ Len(list) = 2
             /\ list[1].title = Str("B")

\* The todos of a list, as a set.
Elems(list) == {list[i] : i \in 1..Len(list)}

\* C14: the two surfaces read and write one store.  GET /api/todos and the
\* refresh tool both return the list of the store as it is now, and what a
\* mutation through either surface did is in that list at once: the todo
\* a create, an update or a toggle answered with is in it, the todo a
\* delete removed is not.
C14_SurfacesShareStore ==
  [][/\ (RestGetTodos \/ McpRefreshTodos) => last'.list = getAllTodos(todos)
     /\ (Handled(CreateOps \cup UpdateOps \cup ToggleOps) /\ last'.status \in Succeeded)
          => last'.ret[1] \in Elems(getAllTodos(todos'))
     /\ (Handled(DeleteOps) /\ last'.status \in Succeeded)
          => \A t \in Elems(getAllTodos(todos')) : t.id # last'.id]_vars

\* C14 witness: the refresh tool has returned a todo whose title a REST
\* PUT had set.
C14_Witness ==
  /\ last.op = "todos.refresh_todos"
  /\ \E t \in Elems(last.list) : t.title = Str("B")

\* The answer is the method-not-allowed envelope: status 405, JSON-RPC
\* error code -32000, id null.
IsMethodNotAllowed(resp) ==
  /\ resp.status = "405"
  /\ resp.ret # Null
  /\ resp.ret[1].jsonrpc = "2.0"
  /\ resp.ret[1].error.code = -32000
  /\ resp.ret[1].id = JsNull

IsTodoShape(ret) ==
  /\ ret # Null
  /\ DOMAIN ret[1] = {"id", "title", "completed", "createdAt"}
  /\ TypeOf(ret[1].title) = "string"
  /\ TypeOf(ret[1].completed) = "boolean"

\* The step is a request to one of the REST routes that name the id.
RestById(id) ==
  \/ \E title \in PutTitleInputs, completed \in PutCompletedInputs :
       RestPutTodo(id, title, completed)
  \/ RestDeleteTodo(id)
  \/ RestToggleTodo(id)

\* The answer is the 404 with the error body.
IsNotFound(resp) ==
  /\ resp.status = "404"
  /\ resp.text = "Todo not found"
  /\ resp.ret = Null

C20_DeleteWinsOverToggle ==
  [][/\ (/\ last.op \in DeleteOps
         /\ last.status \in Succeeded
         /\ Handled(ToggleOps \cup UpdateOps)
         /\ last'.id = last.id)
          => /\ last'.status \in NotFound
             /\ last'.ret = Null
             /\ ~MapHas(todos', last.id)
             /\ todos' = todos
     /\ (/\ last.op \in ToggleOps \cup UpdateOps
         /\ last.status \in Succeeded
         /\ Handled(DeleteOps)
         /\ last'.id = last.id)
          => /\ last'.status \in Succeeded
             /\ ~MapHas(todos', last.id)]_vars

\* C20 witness: the toggle tool was processed right after a delete of the
\* same sample todo and found nothing.
C20_Witness ==
  /\ last.op = "todos.toggle_todo"
  /\ last.id = "1"
  /\ last.status = "isError"
  /\ nops = 2
  /\ Keys(todos) = {"2", "3"}

\* Two values show the same to the component: they are equal, or both
\* stand for "no value" (null, undefined).
Same(a, b) == a = b \/ ({a, b} \subseteq {Undefined, JsNull})

\* C17: once the listeners of openai:set_globals have run, the tool-output
\* mirror is the host's toolOutput and the widget-state mirror is the
\* host's widgetState, whatever the host has set, a cleared value
\* included.  (Read for a page the host injected into; a mirror that
\* holds the component's initial state while the host has no widget
\* state is taken to agree with it.)
C17_MirrorEqualsHostAfterEvent ==
  [][(SetGlobalsEvent /\ host.present)
       => /\ Same(widget'.toolOutput, HostToolOutput(host'))
          /\ \/ Same(widget'.widgetState, HostWidgetState(host'))
             \/ /\ HostWidgetState(host') = Undefined
                /\ widget'.widgetState = InitialState]_vars

\* C18: in every state in which a callTool invocation is still in flight,
\* isLoading is true.
C18_LoadingWhileInFlight == calls > 0 => widget.isLoading

\* The step invokes the helper of the integration function fn.
Invokes(fn) ==
  CASE fn = "callTool" -> CallTool
    [] fn = "openExternal" -> OpenExternal
    [] OTHER -> AsyncHelper(fn)

\* C19: invoking the helper of an integration function the host does not
\* provide is surfaced to the caller as a failure, calls nothing of the
\* host, and leaves the loading indicator as it was.
C19_UnavailableIsRejected ==
  [][\A fn \in HostFunctions :
       (~Provides(host, fn) /\ Invokes(fn))
         => /\ wlast'.helper = fn
            /\ wlast'.outcome \in {"rejected", "thrown"}
            /\ ~wlast'.hostCalled
            /\ calls' = calls
            /\ host' = host
            /\ widget'.isLoading = widget.isLoading]_vars

\* C19 witness: callTool was invoked under a host that provides the other
\* functions but not callTool, and the indicator is off.
C19_Witness ==
  /\ host.present
  /\ host.provides = HostFunctions \ {"callTool"}
  /\ wlast = Invocation("callTool", "rejected", FALSE)
  /\ ~widget.isLoading
  /\ calls = 0

=============================================================================
